---- MODULE Spec2Model ----
(***************************************************************************)
(* Model of zvt/contract/recorder.py: the incremental synchronisation      *)
(* engine (TimeSeriesDataRecorder and its FixedCycle / Timestamps          *)
(* variants).  Instants are minutes since an epoch; a Record id            *)
(* "<entity>_<day>[_<uuid>]" is the tuple <<entity, day, token>>.          *)
(***************************************************************************)
EXTENDS Integers, Sequences, FiniteSets, TLC

(* ------------------------------ bounds --------------------------------- *)
\* fetches per entity after which the source has nothing more to return
MaxFetches == 2
\* longest batch the source returns in one fetch
MaxBatch == 2
\* longest batch a provider that repeats itself returns of what is persisted
MaxKnown == 3
\* last calendar day the clock can reach
MaxDay == 2

(* --------------------------- time arithmetic --------------------------- *)
None == -1
\* a source timestamp that to_pd_timestamp cannot parse
Malformed == -2
MinutesPerHour == 60
HoursPerDay == 24
MinutesPerDay == MinutesPerHour * HoursPerDay

Truthy(t) == t # None
Max(a, b) == IF a >= b THEN a ELSE b
At(d, h, m) == d * MinutesPerDay + h * MinutesPerHour + m
Day(t) == t \div MinutesPerDay
Hour(t) == (t % MinutesPerDay) \div MinutesPerHour
Minute(t) == t % MinutesPerHour
\* now.replace(hour=0, minute=0, second=0)
Midnight(t) == Day(t) * MinutesPerDay
\* timedelta.days: the floor of the difference in whole days
TimedeltaDays(a, b) == (a - b) \div MinutesPerDay
\* to_time_str(timestamp, fmt=TIME_FORMAT_DAY): the calendar day of the instant
to_time_str(t) == IF t = Malformed THEN Malformed ELSE Day(t)

SeqToSet(s) == {s[i] : i \in 1..Len(s)}
SeqsUpTo(S, n) == UNION {[1..k -> S] : k \in 0..n}

(* ------------------------------- state --------------------------------- *)
VARIABLES
    cfg,            \* the recorder's constructor arguments
    clock,          \* wall clock read by now_pd_timestamp
    entities,       \* worker -> self.entities
    trade_day,      \* descending trading days loaded in run()
    stock_detail,   \* entity id -> end_date (None when unknown)
    world,          \* the collaborators: [ticks, payloads, discovered, strict,
                    \* faulty, repeats]: the instants the clock shows, what record()
                    \* and init_timestamps answer, whether to_time_str raises on a
                    \* malformed timestamp, whether the calls run() makes outside
                    \* process_loop (calendar load, pbar, session close) can raise,
                    \* whether a source with nothing new returns persisted payloads
    store,          \* records visible through the worker sessions
    fresh,          \* [oid, uuid]: last object identity / uuid token handed out
    pc,             \* worker -> position in run()
    idx,            \* worker -> index of the entity of the for loop
    frame,          \* worker -> locals of process_entity
    status,         \* entity id -> "Pending" | "Active" | "Finished" | "Failed"
    hist,           \* worker -> what the current iteration called so far: the calls
                    \* in order, whether the window was computed, the store
                    \* queries and deletes of the window computation, the batch
                    \* handed to persist, the batch committed, its new records
    fetches,        \* entity id -> number of record() calls, counted up to MaxFetches
    security_timestamps_map, \* entity id -> memoized timestamps (no key = absent)
    hooks,          \* entity id -> [finish, init]: on_finish_entity / init_timestamps calls
    lock,           \* share_para[2]: 0 when free, else the holding worker
    pbar,           \* worker -> tqdm counter
    sessions        \* worker -> [session, entity_session]: "open" | "closed", with
                    \* the records whose delete the session flushed and has not
                    \* committed (pending) and those whose delete it committed
                    \* (dropped)

vars == <<cfg, clock, entities, trade_day, stock_detail, world, store, fresh, pc,
          idx, frame, status, hist, fetches, security_timestamps_map, hooks, lock,
          pbar, sessions>>

Workers == DOMAIN entities
AllEntities == UNION {SeqToSet(entities[w]) : w \in Workers}
EntityIds == {e.id : e \in AllEntities}
\* the entity_item of the running for-loop iteration
Cur(w) == entities[w][idx[w]]

(* ----------------------------- DataStore -------------------------------- *)
RecordsOf(st, entity_id) == {r \in st : r.entity_id = entity_id}
IsLatest(r, recs) == r \in recs /\ \A q \in recs : q.timestamp <= r.timestamp

\* get_data(entity_id=.., order=timestamp.desc(), limit=..): every list the store
\* may answer with (records with equal timestamps come in either order)
get_data_latest(st, entity_id, limit) ==
    LET recs == RecordsOf(st, entity_id) IN
    IF recs = {} THEN {<<>>}
    ELSE IF limit = 1 \/ Cardinality(recs) = 1
         THEN {<<r>> : r \in {q \in recs : IsLatest(q, recs)}}
         ELSE {s \in recs \X recs : /\ IsLatest(s[1], recs)
                                     /\ s[2] # s[1]
                                     /\ IsLatest(s[2], recs \ {s[1]})}

\* get_data(filters=[data_schema.id == the_id])
get_data_by_id(st, entity_id, the_id) == {r \in RecordsOf(st, entity_id) : r.id = the_id}

(* --------------------- helpers of zvt.utils.time_utils ------------------ *)
LevelMinutes(level) == IF level = "1h" THEN MinutesPerHour ELSE MinutesPerDay
is_in_same_interval(t1, t2, level) == t1 \div LevelMinutes(level) = t2 \div LevelMinutes(level)
is_same_date(t1, t2) == Day(t1) = Day(t2)
count_mins_before_close_time(now, close_hour, close_minute) ==
    (close_hour * MinutesPerHour + close_minute) - (Hour(now) * MinutesPerHour + Minute(now))
date_delta(now, end_date) == TimedeltaDays(now, end_date)
evaluate_size_from_timestamp(start_timestamp, end_timestamp, level, days) ==
    Cardinality({i \in 1..Len(days) : Day(days[i]) > Day(start_timestamp)
                                      /\ days[i] <= end_timestamp})
      * (MinutesPerDay \div LevelMinutes(level))

(* ---------------------------- WindowPolicy ------------------------------ *)
Window(start, end, end_date, size, timestamps) ==
    [start |-> start, end |-> end, end_date |-> end_date, size |-> size,
     timestamps |-> timestamps]
NoWindow == Window(None, None, None, 0, <<>>)

\* what one call of evaluate_start_end_size_timestamps did
Outcome(win, st, reads, deletes, latest, map, inits, raised) ==
    [win |-> win, store |-> st, reads |-> reads, deletes |-> deletes, latest |-> latest,
     map |-> map, inits |-> inits, raised |-> raised]

\* trade_day[trade_index] if len(trade_day) > 0 else None
Trade(trade_index) == IF Len(trade_day) > 0 THEN trade_day[trade_index + 1] ELSE None

\* entity.timestamp and (entity.timestamp >= now)
not_listed_yet(now, entity) == Truthy(entity.timestamp) /\ entity.timestamp >= now

\* TimeSeriesDataRecorder.get_latest_saved_record: limit=1
get_latest_saved_record(st, entity) == get_data_latest(st, entity.id, 1)

effective_start_unclamped(latest_timestamp) == latest_timestamp
\* if self.start_timestamp: latest_timestamp = max(latest_timestamp, self.start_timestamp)
effective_start(latest_timestamp) ==
    IF Truthy(cfg.start_timestamp) THEN Max(latest_timestamp, cfg.start_timestamp)
    ELSE latest_timestamp

generic_size_ignoring_end(now, latest_timestamp) ==
    IF Truthy(cfg.end_timestamp) THEN cfg.default_size
    ELSE TimedeltaDays(Midnight(now), latest_timestamp)
\* size of the generic window once a start is known
generic_size(now, latest_timestamp) ==
    IF Truthy(cfg.end_timestamp)
    THEN IF latest_timestamp >= cfg.end_timestamp THEN 0 ELSE cfg.default_size
    ELSE TimedeltaDays(Midnight(now), latest_timestamp)

\* TimeSeriesDataRecorder.evaluate_start_end_size_timestamps
evaluate_start_end_size_timestamps(now, entity, st, map) ==
    IF not_listed_yet(now, entity)
    THEN {Outcome(Window(entity.timestamp, None, Trade(0), 0, <<>>), st, 0, <<>>, <<>>,
                  map, 0, FALSE)}
    ELSE {LET latest_timestamp == IF latest_saved_record # <<>>
                                  THEN latest_saved_record[1].timestamp
                                  ELSE entity.timestamp
          IN  IF ~Truthy(latest_timestamp)
              THEN Outcome(Window(cfg.start_timestamp, cfg.end_timestamp, Trade(0),
                                  cfg.default_size, <<>>),
                           st, 1, <<>>, latest_saved_record, map, 0, FALSE)
              ELSE Outcome(Window(effective_start(latest_timestamp), cfg.end_timestamp,
                                  Trade(0),
                                  generic_size(now, effective_start(latest_timestamp)),
                                  <<>>),
                           st, 1, <<>>, latest_saved_record, map, 0, FALSE)
          : latest_saved_record \in get_latest_saved_record(st, entity)}

FixedCycle_get_latest_saved_record_keep_both(st, records) ==
    [store |-> st, deletes |-> <<>>,
     latest |-> IF Len(records) > 0 THEN <<records[1]>> ELSE <<>>]
\* FixedCycleDataRecorder.get_latest_saved_record on the answer `records` of the
\* limit=2 query: [store, deletes, latest]
FixedCycle_get_latest_saved_record(st, records) ==
    IF Len(records) = 2
       /\ is_in_same_interval(records[1].timestamp, records[2].timestamp, cfg.level)
    THEN [store |-> st \ {records[1]}, deletes |-> <<records[1]>>, latest |-> <<records[2]>>]
    ELSE IF Len(records) > 0
         THEN [store |-> st, deletes |-> <<>>, latest |-> <<records[1]>>]
         ELSE [store |-> st, deletes |-> <<>>, latest |-> <<>>]

\* trade_day.index(end_date), 0-based; -1 stands for ValueError
list_index(list, x) ==
    IF \E i \in 1..Len(list) : list[i] = x
    THEN (CHOOSE i \in 1..Len(list) : list[i] = x /\ \A j \in 1..(i - 1) : list[j] # x) - 1
    ELSE -1

\* lines 608-611: skip today while it is a trading day that has not closed
index_before_close(now) ==
    IF Len(trade_day) > 0
       /\ count_mins_before_close_time(now, cfg.close_hour, cfg.close_minute) > 0
       /\ is_same_date(trade_day[1], now)
    THEN 1 ELSE 0

\* lines 615-632: the index of a delisted entity.  The fallback of line 630
\* subscripts the list's bound method `index`, raises, and leaves the index as is.
index_after_delisting(now, entity, trade_index) ==
    LET end_date == stock_detail[entity.id]
        days == IF Truthy(end_date) THEN date_delta(now, end_date) ELSE -1
    IN  IF days > 0 /\ list_index(trade_day, end_date) >= 0
        THEN list_index(trade_day, end_date)
        ELSE trade_index

\* FixedCycleDataRecorder.evaluate_start_end_size_timestamps
FixedCycle_evaluate_start_end_size_timestamps(now, entity, st, map) ==
    IF not_listed_yet(now, entity)
    THEN {Outcome(Window(entity.timestamp, None, Trade(0), 0, <<>>), st, 0, <<>>, <<>>,
                  map, 0, FALSE)}
    ELSE {LET got == FixedCycle_get_latest_saved_record(st, records)
              latest_saved_timestamp == IF got.latest # <<>> THEN got.latest[1].timestamp
                                        ELSE entity.timestamp
              trade_index == index_after_delisting(now, entity, index_before_close(now))
          IN  IF ~Truthy(latest_saved_timestamp)
              THEN Outcome(Window(None, None, Trade(0), cfg.default_size, <<>>),
                           got.store, 1, got.deletes, got.latest, map, 0, FALSE)
              ELSE IF (Len(trade_day) > 0 /\ ~Truthy(cfg.close_hour))
                      \/ (Len(trade_day) > 0 /\ ~Truthy(cfg.close_minute))
                      \/ (Len(trade_day) > 0 /\ trade_index >= Len(trade_day))
              THEN Outcome(NoWindow, got.store, 1, got.deletes, got.latest, map, 0, TRUE)
              ELSE Outcome(Window(latest_saved_timestamp, None, Trade(trade_index),
                                  evaluate_size_from_timestamp(
                                      latest_saved_timestamp, now, cfg.level,
                                      SubSeq(trade_day, trade_index + 1, Len(trade_day))),
                                  <<>>),
                           got.store, 1, got.deletes, got.latest, map, 0, FALSE)
          : records \in get_data_latest(st, entity.id, 2)}

\* security_timestamps_map.get(entity.id): <<>> also stands for a missing key
map_get(map, id) == IF id \in DOMAIN map THEN map[id] ELSE <<>>
map_put(map, id, v) == [k \in (DOMAIN map) \cup {id} |-> IF k = id THEN v ELSE map[k]]

\* [t for t in timestamps if t >= low]
at_or_after(timestamps, low) ==
    LET F[i \in 0..Len(timestamps)] ==
            IF i = 0 THEN <<>>
            ELSE IF timestamps[i] >= low THEN Append(F[i - 1], timestamps[i]) ELSE F[i - 1]
    IN  F[Len(timestamps)]

\* [t for t in timestamps if t <= high]
at_or_before(timestamps, high) ==
    LET F[i \in 0..Len(timestamps)] ==
            IF i = 0 THEN <<>>
            ELSE IF timestamps[i] <= high THEN Append(F[i - 1], timestamps[i]) ELSE F[i - 1]
    IN  F[Len(timestamps)]

filter_timestamps_keep_all(timestamps) == timestamps
\* lines 676-680: the discovered list cut to [start_timestamp, end_timestamp]
filter_timestamps(timestamps) ==
    LET after == IF Truthy(cfg.start_timestamp)
                 THEN at_or_after(timestamps, cfg.start_timestamp)
                 ELSE timestamps
    IN  IF Truthy(cfg.end_timestamp) THEN at_or_before(after, cfg.end_timestamp)
        ELSE after

\* TimestampsDataRecorder.evaluate_start_end_size_timestamps, `discovered` being
\* what init_timestamps answers when it is called
Timestamps_evaluate_start_end_size_timestamps(now, entity, st, map, discovered) ==
    LET cached == map_get(map, entity.id)
        called == cached = <<>>
        timestamps == IF called THEN filter_timestamps(discovered) ELSE cached
        inits == IF called THEN 1 ELSE 0
    IN  IF timestamps = <<>>
        THEN {Outcome(Window(None, None, Trade(0), 0, timestamps), st, 0, <<>>, <<>>,
                      IF called THEN map_put(map, entity.id, timestamps) ELSE map,
                      inits, FALSE)}
        ELSE {LET sorted == SortSeq(timestamps, LAMBDA a, b : a < b)
                  map2 == map_put(map, entity.id, sorted)
                  left == IF latest_record # <<>>
                          THEN at_or_after(sorted, latest_record[1].timestamp)
                          ELSE sorted
              IN  IF left # <<>>
                  THEN Outcome(Window(left[1], left[Len(left)], Trade(0), Len(left), left),
                               st, 1, <<>>, latest_record, map2, inits, FALSE)
                  ELSE Outcome(Window(None, None, Trade(0), 0, <<>>),
                               st, 1, <<>>, latest_record, map2, inits, FALSE)
              : latest_record \in get_latest_saved_record(st, entity)}

(* --------------------------- RecordReconciler --------------------------- *)
\* rev counts the overlays fill_domain_from_dict made on a record read back from
\* the store
Record(oid, id, entity_id, timestamp) ==
    [oid |-> oid, id |-> id, entity_id |-> entity_id, timestamp |-> timestamp, rev |-> 0]
Raw(timestamp) == [kind |-> "raw", id |-> <<>>, timestamp |-> timestamp]
Domain(id, timestamp) == [kind |-> "domain", id |-> id, timestamp |-> timestamp]

\* "{}_{}".format(entity.id, to_time_str(timestamp))
generate_domain_id(entity, original_data) ==
    <<entity.id, to_time_str(original_data.timestamp), 0>>

\* "{}_{}".format(domain_item.id, uuid.uuid1())
regenerate_id(id, uuid) == <<id[1], id[2], uuid>>

\* to_pd_timestamp(timestamp_str) inside try/except: None when it cannot parse
to_pd_timestamp(timestamp_str) == IF timestamp_str = Malformed THEN None ELSE timestamp_str

generate_domain_skip_known(entity, original_data, st, oid) ==
    LET items == get_data_by_id(st, entity.id, generate_domain_id(entity, original_data))
    IN  IF items # {}
        THEN [got_new_data |-> FALSE, domain_item |-> <<>>, raised |-> FALSE]
        ELSE [got_new_data |-> TRUE,
              domain_item |-> <<Record(oid, generate_domain_id(entity, original_data),
                                       entity.id, original_data.timestamp)>>,
              raised |-> FALSE]
generate_domain_overlay_is_new(entity, original_data, st, oid) ==
    LET items == get_data_by_id(st, entity.id, generate_domain_id(entity, original_data))
    IN  IF items # {}
        THEN [got_new_data |-> TRUE,
              domain_item |-> <<[(CHOOSE r \in items : TRUE) EXCEPT !.rev = @ + 1]>>,
              raised |-> FALSE]
        ELSE [got_new_data |-> TRUE,
              domain_item |-> <<Record(oid, generate_domain_id(entity, original_data),
                                       entity.id, original_data.timestamp)>>,
              raised |-> FALSE]
\* generate_domain: [got_new_data, domain_item, raised]; `oid` is the identity a
\* newly constructed object gets, <<>> is None; an item read back from the store is
\* overlaid in place by fill_domain_from_dict
generate_domain(entity, original_data, st, oid) ==
    IF original_data.kind = "domain"
    THEN [got_new_data |-> TRUE,
          domain_item |-> <<Record(oid, original_data.id, entity.id,
                                   original_data.timestamp)>>,
          raised |-> FALSE]
    ELSE IF original_data.timestamp = Malformed /\ world.strict
    THEN [got_new_data |-> FALSE, domain_item |-> <<>>, raised |-> TRUE]
    ELSE LET the_id == generate_domain_id(entity, original_data)
             items == get_data_by_id(st, entity.id, the_id)
         IN  IF items # {} /\ ~cfg.force_update
             THEN [got_new_data |-> FALSE, domain_item |-> <<>>, raised |-> FALSE]
             ELSE IF items = {}
             THEN [got_new_data |-> TRUE,
                   domain_item |-> <<Record(oid, the_id, entity.id,
                                            to_pd_timestamp(original_data.timestamp))>>,
                   raised |-> FALSE]
             ELSE [got_new_data |-> FALSE,
                   domain_item |-> <<[(CHOOSE r \in items : TRUE) EXCEPT !.rev = @ + 1]>>,
                   raised |-> FALSE]

\* fix_duplicate_way != 'add': give up on the batch
abort_on_duplicate == cfg.fix_duplicate_way # "add"

\* lines 399-407 on a domain_item that was generated: the list and the session hold
\* the object itself, not a copy, so an overlay or a new id shows in both
collect_item(acc, domain_item, renamed, all_duplicated, duplicated) ==
    IF duplicated /\ abort_on_duplicate
    THEN [acc EXCEPT !.all_duplicated = all_duplicated, !.finished = TRUE,
                     !.fresh.oid = @ + 1,
                     !.st = {IF r.oid = domain_item.oid THEN domain_item ELSE r : r \in @}]
    ELSE IF duplicated
    THEN [acc EXCEPT !.all_duplicated = all_duplicated,
                     !.fresh = [oid |-> @.oid + 1, uuid |-> @.uuid + 1],
                     !.st = {IF r.oid = domain_item.oid THEN renamed ELSE r : r \in @},
                     !.domain_list =
                         Append([i \in 1..Len(@) |->
                                     IF @[i].oid = domain_item.oid THEN renamed ELSE @[i]],
                                renamed)]
    ELSE [acc EXCEPT !.all_duplicated = all_duplicated, !.fresh.oid = @ + 1,
                     !.st = {IF r.oid = domain_item.oid THEN domain_item ELSE r : r \in @},
                     !.domain_list = Append(@, domain_item)]

\* lines 393-399 on the answer g of generate_domain
take_generated(acc, g) ==
    IF g.raised THEN [acc EXCEPT !.raised = TRUE]
    ELSE IF g.domain_item = <<>>
    THEN [acc EXCEPT !.all_duplicated = @ /\ ~g.got_new_data]
    ELSE collect_item(acc, g.domain_item[1],
                      [g.domain_item[1] EXCEPT !.id = regenerate_id(@, acc.fresh.uuid + 1)],
                      acc.all_duplicated /\ ~g.got_new_data,
                      \E i \in 1..Len(acc.domain_list) :
                          acc.domain_list[i].id = g.domain_item[1].id)

\* one turn of the for loop of process_duplicate over the running state
\* [domain_list, all_duplicated, st, fresh, finished, raised]
reconcile_item(acc, entity, original_item) ==
    IF acc.finished \/ acc.raised THEN acc
    ELSE take_generated(acc, generate_domain(entity, original_item, acc.st,
                                             acc.fresh.oid + 1))

RECURSIVE reconcile_items(_, _, _)
reconcile_items(acc, entity, original_list) ==
    IF original_list = <<>> THEN acc
    ELSE CHOOSE last \in {reconcile_items(next, entity, Tail(original_list)) :
                             next \in {reconcile_item(acc, entity, Head(original_list))}} :
             TRUE

\* session.add_all(domain_list); session.commit(): two objects with one primary
\* key make the commit fail
persist(st, domain_list) ==
    LET oids == {domain_list[i].oid : i \in 1..Len(domain_list)}
        after == {r \in st : r.oid \notin oids} \cup SeqToSet(domain_list)
    IN  IF \E a, b \in after : a.oid # b.oid /\ a.id = b.id
        THEN [store |-> st, raised |-> TRUE]
        ELSE [store |-> after, raised |-> FALSE]

\* lines 409-413 on the state acc the for loop ended in, `saved` being what
\* persist answered when it was called
batch_outcome(acc, commits, saved) ==
    [entity_finished |-> acc.finished, all_duplicated |-> acc.all_duplicated,
     domain_list |-> IF acc.finished \/ acc.raised THEN <<>> ELSE acc.domain_list,
     persisted |-> IF commits /\ ~saved.raised THEN acc.domain_list ELSE <<>>,
     store |-> saved.store, fresh |-> acc.fresh, raised |-> saved.raised]

\* lines 409-413: persist a batch that is not empty and was not given up
end_of_batch(acc) ==
    IF ~acc.finished /\ ~acc.raised /\ acc.domain_list # <<>>
    THEN batch_outcome(acc, TRUE, persist(acc.st, acc.domain_list))
    ELSE batch_outcome(acc, FALSE, [store |-> acc.st, raised |-> acc.raised])

\* process_duplicate: [entity_finished, all_duplicated, domain_list, persisted,
\* store, fresh, raised]
process_duplicate(original_list, entity_item, st, fr) ==
    CHOOSE got \in {end_of_batch(acc) :
                       acc \in {reconcile_items([domain_list |-> <<>>,
                                                 all_duplicated |-> TRUE, st |-> st,
                                                 fresh |-> fr, finished |-> FALSE,
                                                 raised |-> FALSE],
                                                entity_item, original_list)}} :
        TRUE

(* -------------------------- CompletionDetector -------------------------- *)
GraceMinutes == 5

\* lines 424-428: realtime and to the close time
to_the_close_time(now) ==
    /\ Truthy(cfg.close_hour) /\ Truthy(cfg.close_minute)
    /\ Hour(now) >= cfg.close_hour
    /\ Minute(now) - cfg.close_minute >= GraceMinutes

process_realtime_no_tracking(original_list, all_duplicated, now) ==
    original_list = <<>> \/ all_duplicated
\* process_realtime: entity_finished
process_realtime(original_list, all_duplicated, now) ==
    /\ original_list = <<>> \/ all_duplicated
    /\ ~cfg.real_time \/ to_the_close_time(now)

(* ---------------------- EntitySyncLoop: process_entity ------------------ *)
NoFrame == [now |-> None, win |-> NoWindow, original_list |-> <<>>,
            all_duplicated |-> TRUE]
NoHist == [calls |-> <<>>, computed |-> FALSE, reads |-> 0, deletes |-> <<>>,
           latest |-> <<>>, inits |-> 0, aborted |-> FALSE, domain_list |-> <<>>,
           persisted |-> <<>>, new |-> 0]

\* the policy the recorder class carries
Evaluations(now, entity) ==
    IF cfg.policy = "fixed"
    THEN FixedCycle_evaluate_start_end_size_timestamps(now, entity, store,
                                                       security_timestamps_map)
    ELSE IF cfg.policy = "timestamps"
    THEN UNION {Timestamps_evaluate_start_end_size_timestamps(
                    now, entity, store, security_timestamps_map, discovered)
                : discovered \in world.discovered}
    ELSE evaluate_start_end_size_timestamps(now, entity, store, security_timestamps_map)

no_more_to_record_negative(size) == size < 0
\* line 447: no more to record
no_more_to_record(size) == size = 0

\* lines 439-452: read the clock, compute the window, finish on size 0
Evaluate(w) ==
    /\ pc[w] = "evaluate"
    /\ \E now \in {t \in world.ticks : t >= clock} :
       \E out \in Evaluations(now, Cur(w)) :
          /\ clock' = now
          /\ store' = out.store
          /\ sessions' = [sessions EXCEPT ![w].pending = @ \cup SeqToSet(out.deletes)]
          /\ security_timestamps_map' = out.map
          /\ frame' = [frame EXCEPT ![w] = [NoFrame EXCEPT !.now = now, !.win = out.win]]
          /\ hist' = [hist EXCEPT ![w] = [NoHist EXCEPT !.calls = <<"evaluate">>,
                                                        !.computed = ~out.raised,
                                                        !.reads = out.reads,
                                                        !.deletes = out.deletes,
                                                        !.latest = out.latest,
                                                        !.inits = out.inits]]
          /\ IF out.raised
             THEN /\ hooks' = [hooks EXCEPT ![Cur(w).id].init = @ + out.inits]
                  /\ pc' = [pc EXCEPT ![w] = "raised"]
                  /\ UNCHANGED status
             ELSE IF no_more_to_record(out.win.size)
             THEN /\ hooks' = [hooks EXCEPT ![Cur(w).id].finish = @ + 1,
                                            ![Cur(w).id].init = @ + out.inits]
                  /\ status' = [status EXCEPT ![Cur(w).id] = "Finished"]
                  /\ pc' = [pc EXCEPT ![w] = "acquire"]
             ELSE /\ hooks' = [hooks EXCEPT ![Cur(w).id].init = @ + out.inits]
                  /\ pc' = [pc EXCEPT ![w] = "record"]
                  /\ UNCHANGED status
    /\ UNCHANGED <<cfg, entities, trade_day, stock_detail, world, fresh, idx, fetches,
                   lock, pbar>>

\* the raw payloads of the source whose derived id is persisted for the entity
KnownPayloads(entity_id) ==
    {p \in world.payloads :
        /\ p.kind = "raw"
        /\ get_data_by_id(store, entity_id, generate_domain_id([id |-> entity_id], p)) # {}}

\* what a provider that repeats itself may answer besides: what is persisted over
\* again
Repeated(entity_id) ==
    IF world.repeats THEN SeqsUpTo(KnownPayloads(entity_id), MaxKnown) ELSE {}

\* what the provider may answer to one more fetch: any batch at first, nothing in
\* the end
Batches(entity_id) ==
    IF fetches[entity_id] < MaxFetches
    THEN SeqsUpTo(world.payloads, MaxBatch) \cup Repeated(entity_id)
    ELSE {<<>>}

\* lines 455-460: original_list = self.record(...)
Fetch(w) ==
    /\ pc[w] = "record"
    /\ \E original_list \in Batches(Cur(w).id) :
          frame' = [frame EXCEPT ![w].original_list = original_list]
    /\ fetches' = [fetches EXCEPT ![Cur(w).id] = IF @ < MaxFetches THEN @ + 1 ELSE @]
    /\ hist' = [hist EXCEPT ![w].calls = Append(@, "record")]
    /\ pc' = [pc EXCEPT ![w] = "reconcile"]
    /\ UNCHANGED <<cfg, clock, entities, trade_day, stock_detail, world, store, fresh,
                   idx, status, security_timestamps_map, hooks, lock, pbar, sessions>>

\* lines 464-467: process_duplicate, persist included
Reconcile(w) ==
    /\ pc[w] = "reconcile"
    /\ \E got \in {process_duplicate(frame[w].original_list, Cur(w), store, fresh)} :
          /\ store' = got.store
          /\ fresh' = got.fresh
          \* session.commit() makes the flushed deletes durable with the batch
          /\ sessions' = IF got.persisted # <<>>
                         THEN [sessions EXCEPT ![w].dropped = @ \cup sessions[w].pending,
                                               ![w].pending = {}]
                         ELSE sessions
          /\ frame' = [frame EXCEPT ![w].all_duplicated = got.all_duplicated]
          /\ hist' = [hist EXCEPT ![w].calls = Append(@, "process_duplicate"),
                                  ![w].aborted = got.entity_finished,
                                  ![w].domain_list = got.domain_list,
                                  ![w].persisted = got.persisted,
                                  ![w].new = Cardinality({i \in 1..Len(got.persisted) :
                                                 got.persisted[i].oid > fresh.oid})]
          /\ IF got.raised
             THEN pc' = [pc EXCEPT ![w] = "raised"] /\ UNCHANGED status
             ELSE IF got.entity_finished
             THEN /\ status' = [status EXCEPT ![Cur(w).id] = "Finished"]
                  /\ pc' = [pc EXCEPT ![w] = "acquire"]
             ELSE pc' = [pc EXCEPT ![w] = "realtime"] /\ UNCHANGED status
    /\ UNCHANGED <<cfg, clock, entities, trade_day, stock_detail, world, idx, fetches,
                   security_timestamps_map, hooks, lock, pbar>>

\* lines 470-485: process_realtime
Realtime(w) ==
    /\ pc[w] = "realtime"
    /\ hist' = [hist EXCEPT ![w].calls = Append(@, "process_realtime")]
    /\ IF process_realtime(frame[w].original_list, frame[w].all_duplicated, frame[w].now)
       THEN /\ hooks' = [hooks EXCEPT ![Cur(w).id].finish = @ + 1]
            /\ status' = [status EXCEPT ![Cur(w).id] = "Finished"]
            /\ pc' = [pc EXCEPT ![w] = "acquire"]
       ELSE /\ pc' = [pc EXCEPT ![w] = "sleep"]
            /\ UNCHANGED <<status, hooks>>
    /\ UNCHANGED <<cfg, clock, entities, trade_day, stock_detail, world, store, fresh,
                   idx, frame, fetches, security_timestamps_map, lock, pbar, sessions>>

(* ----------------------- EntitySyncLoop: process_loop ------------------- *)
LoopSteps == {"evaluate", "record", "reconcile", "realtime", "sleep"}

\* line 493: self.sleep(), then the next turn of while True
Sleep(w) ==
    /\ pc[w] = "sleep"
    /\ pc' = [pc EXCEPT ![w] = "evaluate"]
    /\ UNCHANGED <<cfg, clock, entities, trade_day, stock_detail, world, store, fresh,
                   idx, frame, status, hist, fetches, security_timestamps_map, hooks,
                   lock, pbar, sessions>>

\* a collaborator (store query, fetch, commit, hook, sleep) raises an Exception
StepRaises(w) ==
    /\ pc[w] \in LoopSteps
    /\ pc' = [pc EXCEPT ![w] = "raised"]
    /\ UNCHANGED <<cfg, clock, entities, trade_day, stock_detail, world, store, fresh,
                   idx, frame, status, hist, fetches, security_timestamps_map, hooks,
                   lock, pbar, sessions>>

after_except_retry == "evaluate"
after_except_reraise == "aborted"
\* where the worker goes once the except clause of process_loop has run
after_except == "acquire"

\* lines 494-496: except Exception: log and return
ProcessLoopExcept(w) ==
    /\ pc[w] = "raised"
    /\ status' = [status EXCEPT ![Cur(w).id] = "Failed"]
    /\ pc' = [pc EXCEPT ![w] = after_except]
    /\ UNCHANGED <<cfg, clock, entities, trade_day, stock_detail, world, store, fresh,
                   idx, frame, hist, fetches, security_timestamps_map, hooks, lock, pbar,
                   sessions>>

(* ------------------------- SyncCoordinator: run ------------------------- *)
\* whether a call outside process_loop returns (TRUE) or raises (FALSE)
Returns == IF world.faulty THEN BOOLEAN ELSE {TRUE}

\* lines 499-513: everything before the for loop; an exception of the calendar or
\* stock detail query leaves run() at once
RunStart(w) ==
    /\ pc[w] = "start"
    /\ \E ok \in Returns : pc' = [pc EXCEPT ![w] = IF ok THEN "loop" ELSE "aborted"]
    /\ UNCHANGED <<cfg, clock, entities, trade_day, stock_detail, world, store, fresh,
                   idx, frame, status, hist, fetches, security_timestamps_map, hooks,
                   lock, pbar, sessions>>

\* lines 514-515: the next entity_item enters process_loop, or the loop is over
NextEntity(w) ==
    /\ pc[w] = "loop"
    /\ IF idx[w] < Len(entities[w])
       THEN /\ idx' = [idx EXCEPT ![w] = @ + 1]
            /\ status' = [status EXCEPT ![entities[w][idx[w] + 1].id] = "Active"]
            /\ pc' = [pc EXCEPT ![w] = "evaluate"]
       ELSE /\ pc' = [pc EXCEPT ![w] = "on_finish"]
            /\ UNCHANGED <<idx, status>>
    /\ frame' = [frame EXCEPT ![w] = NoFrame]
    /\ hist' = [hist EXCEPT ![w] = NoHist]
    /\ UNCHANGED <<cfg, clock, entities, trade_day, stock_detail, world, store, fresh,
                   fetches, security_timestamps_map, hooks, lock, pbar, sessions>>

AcquireWithoutWaiting(w) ==
    /\ pc[w] = "acquire"
    /\ lock' = w
    /\ pc' = [pc EXCEPT ![w] = "update"]
    /\ UNCHANGED <<cfg, clock, entities, trade_day, stock_detail, world, store, fresh,
                   idx, frame, status, hist, fetches, security_timestamps_map, hooks,
                   pbar, sessions>>
\* line 516: self.share_para[2].acquire()
Acquire(w) ==
    /\ pc[w] = "acquire"
    /\ lock = 0
    /\ lock' = w
    /\ pc' = [pc EXCEPT ![w] = "update"]
    /\ UNCHANGED <<cfg, clock, entities, trade_day, stock_detail, world, store, fresh,
                   idx, frame, status, hist, fetches, security_timestamps_map, hooks,
                   pbar, sessions>>

UpdateUnlessFailed(w) ==
    /\ pc[w] = "update"
    /\ pbar' = [pbar EXCEPT ![w] = IF status[Cur(w).id] = "Failed" THEN @ ELSE @ + 1]
    /\ pc' = [pc EXCEPT ![w] = "release"]
    /\ UNCHANGED <<cfg, clock, entities, trade_day, stock_detail, world, store, fresh,
                   idx, frame, status, hist, fetches, security_timestamps_map, hooks,
                   lock, sessions>>
\* line 517: pbar.update(); an exception leaves run() with the lock still held
Update(w) ==
    /\ pc[w] = "update"
    /\ \E ok \in Returns :
          IF ok THEN /\ pbar' = [pbar EXCEPT ![w] = @ + 1]
                     /\ pc' = [pc EXCEPT ![w] = "release"]
          ELSE /\ pc' = [pc EXCEPT ![w] = "aborted"]
               /\ UNCHANGED pbar
    /\ UNCHANGED <<cfg, clock, entities, trade_day, stock_detail, world, store, fresh,
                   idx, frame, status, hist, fetches, security_timestamps_map, hooks,
                   lock, sessions>>

\* line 518: self.share_para[2].release()
Release(w) ==
    /\ pc[w] = "release"
    /\ lock' = 0
    /\ pc' = [pc EXCEPT ![w] = "loop"]
    /\ UNCHANGED <<cfg, clock, entities, trade_day, stock_detail, world, store, fresh,
                   idx, frame, status, hist, fetches, security_timestamps_map, hooks,
                   pbar, sessions>>

\* line 519 and on_finish: close both sessions inside one try; an exception of
\* the first close skips the second, and is logged
OnFinish(w) ==
    /\ pc[w] = "on_finish"
    /\ \E first \in Returns, second \in Returns :
          sessions' = [sessions EXCEPT
              ![w].session = IF first THEN "closed" ELSE @,
              ![w].entity_session = IF first /\ second THEN "closed" ELSE @]
    /\ pc' = [pc EXCEPT ![w] = "done"]
    /\ UNCHANGED <<cfg, clock, entities, trade_day, stock_detail, world, store, fresh,
                   idx, frame, status, hist, fetches, security_timestamps_map, hooks,
                   lock, pbar>>

(* ------------------------------ behaviours ------------------------------ *)
Next ==
    \/ \E w \in Workers : RunStart(w)
    \/ \E w \in Workers : NextEntity(w)
    \/ \E w \in Workers : Evaluate(w)
    \/ \E w \in Workers : Fetch(w)
    \/ \E w \in Workers : Reconcile(w)
    \/ \E w \in Workers : Realtime(w)
    \/ \E w \in Workers : Sleep(w)
    \/ \E w \in Workers : StepRaises(w)
    \/ \E w \in Workers : ProcessLoopExcept(w)
    \/ \E w \in Workers : Acquire(w)
    \/ \E w \in Workers : Update(w)
    \/ \E w \in Workers : Release(w)
    \/ \E w \in Workers : OnFinish(w)

SetMax(S) == CHOOSE x \in S : \A y \in S : y <= x
Entity(id, timestamp) == [id |-> id, timestamp |-> timestamp]
DefaultSize == 2000

\* the constructor arguments: policy (the recorder class), real_time, force_update,
\* fix_duplicate_way, start/end_timestamp, close_hour/minute, level
Config(policy, rt, fu, way, start, end, ch, cm, level) ==
    [policy |-> policy, real_time |-> rt, force_update |-> fu,
     fix_duplicate_way |-> way, default_size |-> DefaultSize,
     start_timestamp |-> start, end_timestamp |-> end,
     close_hour |-> ch, close_minute |-> cm, level |-> level]

\* the state run() starts from, the inputs drawn from the given sets
InitWith(Cfgs, Worlds, Pools, Stores, Calendars, EndDates) ==
    /\ cfg \in Cfgs
    /\ world \in Worlds
    /\ entities \in Pools
    /\ store \in Stores
    /\ trade_day \in Calendars
    /\ stock_detail \in [{e.id : e \in UNION {SeqToSet(entities[w]) : w \in DOMAIN entities}}
                            -> EndDates]
    /\ clock = 0
    /\ fresh = [oid |-> SetMax({0} \cup {r.oid : r \in store}),
                uuid |-> SetMax({0} \cup {r.id[3] : r \in store})]
    /\ pc = [w \in DOMAIN entities |-> "start"]
    /\ idx = [w \in DOMAIN entities |-> 0]
    /\ frame = [w \in DOMAIN entities |-> NoFrame]
    /\ hist = [w \in DOMAIN entities |-> NoHist]
    /\ status = [e \in DOMAIN stock_detail |-> "Pending"]
    /\ fetches = [e \in DOMAIN stock_detail |-> 0]
    /\ hooks = [e \in DOMAIN stock_detail |-> [finish |-> 0, init |-> 0]]
    /\ security_timestamps_map = <<>>
    /\ lock = 0
    /\ pbar = [w \in DOMAIN entities |-> 0]
    /\ sessions = [w \in DOMAIN entities |->
                       [session |-> "open", entity_session |-> "open", pending |-> {},
                        dropped |-> {}]]

Days == 0..MaxDay
\* the trading calendar, most recent day first
Calendar == [i \in 1..(MaxDay + 1) |-> At(MaxDay + 1 - i, 0, 0)]

(* A pool of two workers over three entities; the source has nothing to return. *)
PoolCfgs ==
    {Config(policy, real_time, FALSE, "add", None, None, 0, 0, "1d") :
        policy \in {"generic", "fixed", "timestamps"}, real_time \in BOOLEAN}
PoolWorlds ==
    {[ticks |-> {At(MaxDay, 0, 0)}, payloads |-> {}, discovered |-> {<<At(1, 0, 0)>>},
      strict |-> FALSE, faulty |-> FALSE,
      repeats |-> FALSE]}
PoolEntities ==
    {<<(<<Entity(1, t1), Entity(2, None)>>), (<<Entity(3, t3)>>)>> :
        t1 \in {At(0, 0, 0), At(MaxDay, 0, 0)}, t3 \in {None}}

Init == InitWith(PoolCfgs, PoolWorlds, PoolEntities, {{}}, {Calendar}, {None})
Spec == Init /\ [][Next]_vars

(* One worker over two entities, the source returning colliding payloads. *)
LoopCfgs ==
    {Config(policy, real_time, FALSE, way, None, None, 0, 0, "1d") :
        policy \in {"generic", "fixed", "timestamps"}, real_time \in BOOLEAN,
        way \in {"add", "ignore"}}
LoopWorlds ==
    {[ticks |-> {At(d, 0, 0) : d \in Days} \cup {At(MaxDay, 0, GraceMinutes + 1)},
      payloads |-> {Raw(At(1, 0, 0))},
      discovered |-> {<<At(1, 0, 0)>>}, strict |-> FALSE, faulty |-> FALSE,
      repeats |-> FALSE]}
LoopEntities ==
    {<<(<<Entity(1, t1), Entity(2, None)>>)>> : t1 \in {At(0, 0, 0), At(MaxDay, 0, 0)}}
LoopStores == {{}, {Record(1, <<1, 1, 0>>, 1, At(1, 0, 0))}}

InitLoop == InitWith(LoopCfgs, LoopWorlds, LoopEntities, LoopStores, {Calendar}, {None})
SpecLoop == InitLoop /\ [][Next]_vars

(* ------------------------------- claims --------------------------------- *)
Terminal == {"Finished", "Failed"}
Running(w) == idx[w] > 0 /\ hist[w].calls # <<>>
IsPrefix(s, t) == Len(s) <= Len(t) /\ \A i \in 1..Len(s) : s[i] = t[i]
IterationOrder == <<"evaluate", "record", "process_duplicate", "process_realtime">>

\* C1: within one iteration the calls come in the order compute-window, fetch,
\* reconcile/persist, completion-check; a fetch (and so a persist) happens only
\* after a window of size # 0 was computed in that iteration; a computed window of
\* size 0 leaves the entity Finished with nothing but the window computation done.
C1_SizeZeroFinishesWithoutFetch ==
    \A w \in Workers :
        Running(w) =>
            /\ IsPrefix(hist[w].calls, IterationOrder)
            /\ Len(hist[w].calls) >= 2 => hist[w].computed /\ frame[w].win.size # 0
            /\ pc[w] = "record" => hist[w].computed /\ frame[w].win.size # 0
            /\ hist[w].persisted # <<>> => Len(hist[w].calls) >= 3
            /\ hist[w].computed /\ frame[w].win.size = 0 =>
                   /\ status[Cur(w).id] = "Finished"
                   /\ hist[w].calls = <<"evaluate">>
                   /\ hist[w].persisted = <<>>
                   /\ pc[w] \in {"acquire", "update", "release", "loop"}

C1_Witness ==
    \E w \in Workers :
        /\ Running(w) /\ hist[w].computed /\ frame[w].win.size = 0
        /\ status[Cur(w).id] = "Finished" /\ fetches[Cur(w).id] = 0

\* C2: an exception raised by any step of an iteration takes the entity straight to
\* Failed; Failed is terminal, and no step of the loop runs for a Failed entity.
C2_ExceptionIsTerminal ==
    /\ [](\A w \in Workers :
            pc[w] \in LoopSteps \cup {"raised"} => status[Cur(w).id] = "Active")
    /\ [][\A w \in Workers :
            /\ pc[w] = "raised" /\ pc'[w] # "raised" =>
                   /\ status'[Cur(w).id] = "Failed"
                   /\ pc'[w] = "acquire"
                   /\ store' = store /\ fetches' = fetches
            /\ \A e \in DOMAIN status :
                   status[e] = "Failed" =>
                       /\ status'[e] = "Failed"
                       /\ fetches'[e] = fetches[e]
                       /\ RecordsOf(store', e) = RecordsOf(store, e)]_vars

C2_Witness ==
    \E w \in Workers :
        /\ idx[w] > 0 /\ status[Cur(w).id] = "Failed" /\ pc[w] = "acquire"
        /\ hist[w].calls = <<"evaluate", "record", "process_duplicate">>

\* C3: an entity's failure never leaves process_loop: the handler hands the worker
\* on to its progress update with every other worker and entity untouched, no run()
\* is aborted, every entity a worker has passed is Finished or Failed, a worker that
\* is done has processed its whole list, and the pool can always take a step until
\* every worker is done.
C3_FailureIsolated ==
    /\ [](\A w \in Workers :
            /\ pc[w] # "aborted"
            /\ \A i \in 1..Len(entities[w]) :
                   \/ i < idx[w]
                   \/ pc[w] \in {"on_finish", "done"}
                   => status[entities[w][i].id] \in Terminal)
    /\ []((\A w \in Workers : pc[w] = "done") \/ ENABLED Next)
    /\ [][\A w \in Workers :
            pc[w] = "raised" /\ pc'[w] # "raised" =>
                /\ pc'[w] = "acquire"
                /\ idx' = idx
                /\ \A v \in Workers \ {w} : pc'[v] = pc[v]
                /\ \A e \in DOMAIN status \ {Cur(w).id} : status'[e] = status[e]]_vars

C3_Witness ==
    /\ \A w \in Workers : pc[w] = "done"
    /\ status[1] = "Failed" /\ status[2] = "Finished" /\ status[3] = "Finished"

\* now is at least GraceMinutes past close_hour:close_minute
PastCutoff(now) ==
    /\ Truthy(cfg.close_hour) /\ Truthy(cfg.close_minute)
    /\ Hour(now) * MinutesPerHour + Minute(now)
           >= cfg.close_hour * MinutesPerHour + cfg.close_minute + GraceMinutes

\* the iteration of w runs with real-time tracking on, before the cutoff, and has
\* persisted no new record
PollingBeforeCutoff(w) ==
    /\ Running(w) /\ hist[w].computed
    /\ cfg.real_time /\ ~PastCutoff(frame[w].now)
    /\ hist[w].new = 0

\* C5 as stated: with real-time tracking on and the cutoff not reached, no
\* iteration that yields zero new records ends in Finished.
C5_Original ==
    \A w \in Workers : PollingBeforeCutoff(w) => status[Cur(w).id] # "Finished"

\* C5 as amended: with real-time tracking on and the cutoff not reached, an
\* iteration that computed a window of size # 0 and whose reconciliation did not
\* abort on a within-batch id collision never ends in Finished; once its completion
\* check has run the loop is on its way to the next polling iteration.
C5_RealtimeKeepsPolling ==
    \A w \in Workers :
        PollingBeforeCutoff(w) /\ frame[w].win.size # 0 /\ ~hist[w].aborted =>
            /\ status[Cur(w).id] # "Finished"
            /\ Len(hist[w].calls) = 4 /\ status[Cur(w).id] = "Active" =>
                   pc[w] \in {"sleep", "evaluate", "raised"}

C5_Witness ==
    \E w \in Workers :
        /\ PollingBeforeCutoff(w) /\ frame[w].win.size # 0
        /\ Len(hist[w].calls) = 4 /\ pc[w] = "sleep"
        /\ frame[w].original_list = <<>>

(* One entity under real-time tracking, the clock read to the minute. *)
MaxHour == 2
RealtimeCfgs ==
    {Config("generic", real_time, FALSE, "add", None, At(MaxDay + 1, 0, 0), h, m, "1d") :
        real_time \in BOOLEAN, h \in {None, 0, 1}, m \in {None, 0, MinutesPerHour - 2}}
RealtimeWorlds ==
    {[ticks |-> {At(1, h, m) : h \in 0..MaxHour,
                               m \in {0, 1, 2, GraceMinutes, GraceMinutes + 1}},
      payloads |-> {Raw(At(0, 0, 0))},
      discovered |-> {<<>>}, strict |-> FALSE, faulty |-> FALSE,
      repeats |-> FALSE]}
InitRealtime ==
    InitWith(RealtimeCfgs, RealtimeWorlds, {<<(<<Entity(1, At(0, 0, 0))>>)>>},
             {{Record(1, <<1, 0, 0>>, 1, At(0, 0, 0))}}, {Calendar}, {None})
SpecRealtime == InitRealtime /\ [][Next]_vars

\* C4: process_realtime answers finished exactly when the fetch was empty or all
\* duplicates and real-time tracking is off, or on with now at least GraceMinutes
\* past close_hour:close_minute.
C4_FinishedIffPastCutoff ==
    \A w \in Workers :
        Running(w) /\ Len(hist[w].calls) = 4 /\ status[Cur(w).id] # "Failed" =>
            (status[Cur(w).id] = "Finished"
                <=> /\ frame[w].original_list = <<>> \/ frame[w].all_duplicated
                    /\ ~cfg.real_time \/ PastCutoff(frame[w].now))

(* One entity, every window policy, over the stores an earlier run may have left. *)
WindowCfgs ==
    {Config(policy, real_time, FALSE, "add", start, end, 0, 0, level) :
        policy \in {"generic", "fixed", "timestamps"}, real_time \in BOOLEAN,
        start \in {None, At(1, 0, 0)}, end \in {None, At(1, 0, 0)},
        level \in {"1d", "1h"}}
WindowWorlds ==
    {[ticks |-> {At(1, 1, 30), At(1, 2, 0)},
      payloads |-> {},
      discovered |-> {<<>>, <<At(1, 0, 0), At(0, 0, 0)>>}, strict |-> FALSE, faulty |-> FALSE,
      repeats |-> FALSE]}
\* never listed, listed yesterday, listed earlier today, to be listed on the last day
WindowEntities ==
    {<<(<<Entity(1, t)>>)>> : t \in {None, At(0, 0, 0), At(1, 1, 0), At(MaxDay, 0, 0)}}
WindowStores ==
    SUBSET {Record(1, <<1, 0, 0>>, 1, At(0, 0, 0)),
            Record(2, <<1, 1, 0>>, 1, At(1, 0, 10)),
            Record(3, <<1, 1, 1>>, 1, At(1, 0, 20)),
            Record(4, <<1, 1, 2>>, 1, At(1, 1, 0))}
InitWindow ==
    InitWith(WindowCfgs, WindowWorlds, WindowEntities, WindowStores, {<<>>, Calendar},
             {None})
SpecWindow == InitWindow /\ [][Next]_vars

\* the window of w's iteration has just been computed and nothing else was done
JustEvaluated(w) ==
    Running(w) /\ hist[w].calls = <<"evaluate">> /\ hist[w].computed

\* C6: for an entity whose listing timestamp is present and >= now, whichever
\* policy is in use, the computed window has size 0 and no record was read or
\* deleted while computing it.
C6_NotListedSizeZero ==
    \A w \in Workers :
        JustEvaluated(w) /\ Truthy(Cur(w).timestamp) /\ Cur(w).timestamp >= frame[w].now =>
            /\ frame[w].win.size = 0
            /\ hist[w].reads = 0
            /\ hist[w].deletes = <<>>

\* the generic policy computed w's window for an entity that is listed already (or
\* has no listing timestamp)
GenericListed(w) ==
    /\ JustEvaluated(w) /\ cfg.policy = "generic"
    /\ ~(Truthy(Cur(w).timestamp) /\ Cur(w).timestamp >= frame[w].now)
LatestPersisted(w) == SetMax({r.timestamp : r \in RecordsOf(store, Cur(w).id)})
Clamped(t) == IF cfg.start_timestamp # None /\ cfg.start_timestamp > t
              THEN cfg.start_timestamp ELSE t

\* C7 as stated: with a persisted record, start = max(latest persisted timestamp,
\* configured start); with none, start = the listing timestamp; with neither, the
\* window is configured start, configured end, default size.
C7_Original ==
    \A w \in Workers :
        GenericListed(w) =>
            IF RecordsOf(store, Cur(w).id) # {}
            THEN frame[w].win.start = Clamped(LatestPersisted(w))
            ELSE IF Cur(w).timestamp # None
            THEN frame[w].win.start = Cur(w).timestamp
            ELSE /\ frame[w].win.start = cfg.start_timestamp
                 /\ frame[w].win.end = cfg.end_timestamp
                 /\ frame[w].win.size = cfg.default_size

\* C7 as amended: with a persisted record, start = max(latest persisted timestamp,
\* configured start); with none but a listing timestamp, start = max(listing
\* timestamp, configured start), the listing timestamp itself when no start is
\* configured; with neither, the window is configured start, configured end,
\* default size.
C7_GenericStart ==
    \A w \in Workers :
        GenericListed(w) =>
            IF RecordsOf(store, Cur(w).id) # {}
            THEN frame[w].win.start = Clamped(LatestPersisted(w))
            ELSE IF Cur(w).timestamp # None
            THEN frame[w].win.start = Clamped(Cur(w).timestamp)
            ELSE /\ frame[w].win.start = cfg.start_timestamp
                 /\ frame[w].win.end = cfg.end_timestamp
                 /\ frame[w].win.size = cfg.default_size

C7_Witness ==
    \E w \in Workers :
        /\ GenericListed(w) /\ RecordsOf(store, Cur(w).id) = {}
        /\ Cur(w).timestamp # None /\ cfg.start_timestamp # None
        /\ cfg.start_timestamp > Cur(w).timestamp
        /\ frame[w].win.start = cfg.start_timestamp

\* C8: under the generic policy, once a start is known: with an end configured and
\* the start at or past it size = 0; with no end configured size is the whole-day
\* count from the start to now and never negative.
C8_SizeNeverNegative ==
    \A w \in Workers :
        /\ GenericListed(w)
        /\ RecordsOf(store, Cur(w).id) # {} \/ Cur(w).timestamp # None
        => /\ cfg.end_timestamp # None /\ frame[w].win.start >= cfg.end_timestamp
               => frame[w].win.size = 0
           /\ cfg.end_timestamp = None
               => /\ frame[w].win.size >= 0
                  /\ frame[w].win.size =
                         Max(0, Day(frame[w].now) - Day(frame[w].win.start))

\* the two most recently persisted records of an entity, most recent first
TwoMostRecent(recs) ==
    {p \in recs \X recs : /\ p[1] # p[2]
                          /\ p[1].timestamp >= p[2].timestamp
                          /\ \A q \in recs \ {p[1], p[2]} : q.timestamp <= p[2].timestamp}
SameBucket(a, b) ==
    IF cfg.level = "1h"
    THEN a.timestamp \div MinutesPerHour = b.timestamp \div MinutesPerHour
    ELSE a.timestamp \div MinutesPerDay = b.timestamp \div MinutesPerDay

\* C9: whenever the fixed-cycle policy queries the latest saved record: if the
\* entity's two most recent records fall in one bucket of the level, exactly one
\* delete is issued, of the more recent one, and the older is the anchor; with
\* fewer than two records or two in different buckets nothing is deleted and the
\* most recent record (or none) is the anchor.
C9_DeleteUnfinishedBucket ==
    [][\A w \in Workers :
          /\ pc[w] = "evaluate" /\ cfg.policy = "fixed"
          /\ hist'[w].calls = <<"evaluate">> /\ hist'[w].reads = 1
          => LET recs == RecordsOf(store, Cur(w).id) IN
             IF Cardinality(recs) >= 2
             THEN \E p \in TwoMostRecent(recs) :
                     IF SameBucket(p[1], p[2])
                     THEN /\ hist'[w].deletes = <<p[1]>>
                          /\ store' = store \ {p[1]}
                          /\ hist'[w].latest = <<p[2]>>
                     ELSE /\ hist'[w].deletes = <<>>
                          /\ store' = store
                          /\ hist'[w].latest = <<p[1]>>
             ELSE /\ hist'[w].deletes = <<>>
                  /\ store' = store
                  /\ hist'[w].latest = IF recs = {} THEN <<>>
                                       ELSE <<CHOOSE r \in recs : TRUE>>]_vars

C9_Witness ==
    \E w \in Workers :
        /\ JustEvaluated(w) /\ cfg.policy = "fixed" /\ cfg.level = "1h"
        /\ Len(hist[w].deletes) = 1 /\ Len(hist[w].latest) = 1
        /\ hist[w].deletes[1].timestamp = At(1, 0, 20)
        /\ hist[w].latest[1].timestamp = At(1, 0, 10)
        /\ hist[w].deletes[1] \notin store /\ hist[w].latest[1] \in store

(* One entity, the source returning payloads of one day, with and without a *)
(* record of that day already persisted.                                    *)
ReconcileCfgs ==
    {Config("generic", FALSE, force_update, way, None, At(MaxDay + 1, 0, 0), 0, 0, "1d") :
        force_update \in BOOLEAN, way \in {"add", "ignore"}}
ReconcileWorlds ==
    {[ticks |-> {At(1, 2, 0)},
      payloads |-> {Raw(At(1, 0, 0)), Raw(At(1, 1, 0))},
      discovered |-> {<<>>}, strict |-> FALSE, faulty |-> FALSE,
      repeats |-> FALSE]}
ReconcileStores == {{}, {Record(1, <<1, 1, 0>>, 1, At(1, 0, 0))}}
InitReconcile ==
    InitWith(ReconcileCfgs, ReconcileWorlds, {<<(<<Entity(1, None)>>)>>}, ReconcileStores,
             {Calendar}, {None})
SpecReconcile == InitReconcile /\ [][Next]_vars

\* the payloads of w's batch that share their derived id with another payload of it
Colliding(w) ==
    LET batch == frame[w].original_list IN
    {i \in 1..Len(batch) :
        \E j \in 1..Len(batch) : j # i /\ Day(batch[j].timestamp) = Day(batch[i].timestamp)}

\* C10: with fix_duplicate_way = add, whenever payloads of one batch map to one
\* derived id, each of them is in the persisted batch as a record of its own and
\* the ids of the persisted batch are pairwise distinct, whether or not a record
\* with that id is already persisted and whether force_update is on or off.
C10_AddKeepsBoth ==
    \A w \in Workers :
        /\ Running(w) /\ cfg.fix_duplicate_way = "add"
        /\ Len(hist[w].calls) >= 3 /\ status[Cur(w).id] # "Failed"
        /\ Colliding(w) # {}
        => LET batch == hist[w].persisted IN
           /\ Cardinality({batch[k].oid : k \in 1..Len(batch)}) >= Cardinality(Colliding(w))
           /\ \A k, l \in 1..Len(batch) : k # l => batch[k].id # batch[l].id

\* the step is w's reconciliation of the batch it fetched
Reconciles(w) ==
    pc[w] = "reconcile" /\ Len(hist'[w].calls) = 3

\* C11: with fix_duplicate_way other than add, reconciling a batch in which two
\* payloads map to one derived id leaves the all_duplicated flag true and persists
\* nothing of the batch: no commit, and no record of the store created or updated.
C11_AbortReportsAllDuplicate ==
    [][\A w \in Workers :
          Reconciles(w) /\ cfg.fix_duplicate_way # "add" /\ Colliding(w) # {}
          => /\ frame'[w].all_duplicated
             /\ hist'[w].persisted = <<>>
             /\ store' = store]_vars

(* One entity, the source returning raw payloads of two days, a pre-built    *)
(* record or a payload with a malformed timestamp, over the stores an       *)
(* earlier run may have left.                                               *)
BatchCfgs ==
    {Config("generic", FALSE, force_update, way, None, At(MaxDay + 2, 0, 0), 0, 0, "1d") :
        force_update \in BOOLEAN, way \in {"add", "ignore"}}
BatchWorlds ==
    {[ticks |-> {At(1, 2, 0)}, payloads |-> payloads, discovered |-> {<<>>},
      strict |-> strict, faulty |-> FALSE,
      repeats |-> FALSE] :
        payloads \in {{Raw(At(0, 0, 0)), Raw(At(1, 0, 0))},
                      {Raw(At(1, 0, 0)), Domain(<<1, MaxDay + 1, 0>>, At(MaxDay + 1, 0, 0))},
                      {Raw(At(1, 0, 0)), Raw(Malformed)}},
        strict \in BOOLEAN}
BatchStores ==
    SUBSET {Record(1, <<1, 0, 0>>, 1, At(0, 0, 0)), Record(2, <<1, 1, 0>>, 1, At(1, 0, 0))}
InitBatch ==
    InitWith(BatchCfgs, BatchWorlds, {<<(<<Entity(1, None)>>)>>}, BatchStores,
             {Calendar}, {None})
SpecBatch == InitBatch /\ [][Next]_vars

\* the id derived from entity e and a raw payload
DerivedId(e, payload) ==
    <<e, IF payload.timestamp = Malformed THEN Malformed
         ELSE payload.timestamp \div MinutesPerDay, 0>>
\* the records of the store a raw payload of entity e maps to
Known(e, payload) == {r \in store : r.entity_id = e /\ r.id = DerivedId(e, payload)}
\* w's batch holds raw payloads only, no two of one day, each with its derived id
\* already persisted
AllKnown(w) ==
    LET batch == frame[w].original_list IN
    /\ batch # <<>> /\ Colliding(w) = {}
    /\ \A i \in 1..Len(batch) :
           /\ batch[i].kind = "raw" /\ batch[i].timestamp # Malformed
           /\ Known(Cur(w).id, batch[i]) # {}
Touch(r) == [r EXCEPT !.rev = @ + 1]

\* C12: reconciling raw payloads whose derived ids are already persisted makes no
\* write at all with force_update off (no persist call, store unchanged) and, with
\* force_update on, exactly one update of the existing record per payload: the
\* batch handed to persist is those existing records, none is created and the
\* number of records stays what it was.
C12_IdempotentOnPersisted ==
    [][\A w \in Workers :
          Reconciles(w) /\ AllKnown(w)
          => LET batch == frame[w].original_list
                 hit == UNION {Known(Cur(w).id, batch[i]) : i \in 1..Len(batch)}
             IN  IF ~cfg.force_update
                 THEN /\ hist'[w].domain_list = <<>>
                      /\ hist'[w].persisted = <<>>
                      /\ store' = store
                 ELSE /\ Len(hist'[w].persisted) = Len(batch)
                      /\ \A i \in 1..Len(batch) :
                             \E r \in Known(Cur(w).id, batch[i]) :
                                hist'[w].persisted[i] = Touch(r)
                      /\ store' = {IF r \in hit THEN Touch(r) ELSE r : r \in store}
                      /\ Cardinality(store') = Cardinality(store)
                      /\ hist'[w].new = 0
                      /\ fresh'.uuid = fresh.uuid]_vars

C12_Witness ==
    \E w \in Workers :
        /\ Running(w) /\ Len(hist[w].calls) >= 3 /\ cfg.force_update
        /\ Len(frame[w].original_list) = 1 /\ Len(hist[w].persisted) = 1
        /\ hist[w].persisted[1].rev = 1 /\ hist[w].new = 0
        /\ hist[w].persisted[1] \in store /\ Cardinality(store) = 2

\* the payload yields a record the store does not hold yet
IsNew(e, payload) == payload.kind = "domain" \/ Known(e, payload) = {}
\* the payload is skipped as an already-persisted duplicate
IsSkipped(e, payload) ==
    payload.kind = "raw" /\ ~cfg.force_update /\ Known(e, payload) # {}
\* w's reconciliation ran through its whole batch
RanThrough(w) == Reconciles(w) /\ ~hist'[w].aborted /\ pc'[w] # "raised"

\* C13 as stated: all_duplicated is true iff the batch was non-empty and every
\* payload was skipped as an already-persisted duplicate.
C13_Original ==
    [][\A w \in Workers :
          RanThrough(w)
          => LET batch == frame[w].original_list IN
             frame'[w].all_duplicated
                 <=> /\ batch # <<>>
                     /\ \A i \in 1..Len(batch) : IsSkipped(Cur(w).id, batch[i])]_vars

\* C13 as amended: for a batch reconciled to its end (force_update off, or no two
\* payloads of one derived id), all_duplicated is false iff some payload is a
\* pre-built record or a raw payload whose derived id is not persisted; an empty
\* batch, skipped payloads and force_update overlays all leave it true.
C13_AllDuplicatedUnlessNew ==
    [][\A w \in Workers :
          RanThrough(w) /\ (~cfg.force_update \/ Colliding(w) = {})
          => LET batch == frame[w].original_list IN
             frame'[w].all_duplicated
                 <=> \A i \in 1..Len(batch) : ~IsNew(Cur(w).id, batch[i])]_vars

C13_Witness ==
    \E w \in Workers :
        /\ Running(w) /\ Len(hist[w].calls) >= 3 /\ ~hist[w].aborted
        /\ cfg.force_update /\ frame[w].original_list # <<>>
        /\ hist[w].persisted # <<>> /\ hist[w].new = 0
        /\ frame[w].all_duplicated

\* the entities of w whose process_loop has returned
Ended(w) ==
    {i \in 1..idx[w] : i < idx[w] \/ pc[w] \notin LoopSteps \cup {"raised"}}
\* the entities of w the progress bar has been updated for
Counted(w) ==
    {i \in 1..idx[w] : i < idx[w] \/ pc[w] \in {"release", "loop", "on_finish", "done"}}

\* C14 as stated: the progress counter of a worker counts exactly the entities of
\* its list whose loop ended in Finished; a Failed entity leaves it unchanged.
C14_Original ==
    \A w \in Workers :
        pc[w] \in {"loop", "on_finish", "done"} =>
            pbar[w] = Cardinality({i \in Ended(w) : status[entities[w][i].id] = "Finished"})

\* C14 as amended: the progress counter of a worker is incremented once for every
\* entity whose loop has ended, Failed and Finished alike: between two entities it
\* equals the number of entities the worker has passed.
C14_ProgressCountsFailedToo ==
    \A w \in Workers :
        /\ pbar[w] = Cardinality(Counted(w))
        /\ pc[w] \in {"loop", "on_finish", "done"} =>
               /\ pbar[w] = idx[w]
               /\ pbar[w] = Cardinality({i \in Ended(w) :
                                            status[entities[w][i].id] \in Terminal})

C14_Witness ==
    \E w \in Workers :
        /\ pc[w] = "done" /\ pbar[w] = Len(entities[w])
        /\ \E i \in 1..Len(entities[w]) : status[entities[w][i].id] = "Failed"
        /\ \E i \in 1..Len(entities[w]) : status[entities[w][i].id] = "Finished"

\* the workers inside the critical section of the progress lock
InCritical == {w \in Workers : pc[w] \in {"update", "release"}}

\* C15: the progress bar is only updated by the worker holding the shared lock; at
\* most one worker is in the critical section; the lock is taken only once the
\* entity's loop has ended and is never held by a worker that is evaluating,
\* fetching, persisting or sleeping; a counter only ever goes up by one, once per
\* processed entity.
C15_ProgressUnderLock ==
    /\ [](/\ Cardinality(InCritical) <= 1
          /\ \A w \in Workers :
                /\ w \in InCritical <=> lock = w
                /\ lock = w => /\ pc[w] \notin LoopSteps \cup {"raised"}
                               /\ status[Cur(w).id] \in Terminal
                /\ pbar[w] <= idx[w])
    /\ [][\A w \in Workers :
            /\ pbar'[w] # pbar[w] =>
                   /\ pbar'[w] = pbar[w] + 1
                   /\ lock = w /\ lock' = w
                   /\ idx'[w] = idx[w]
                   /\ \A v \in Workers \ {w} : pbar'[v] = pbar[v]
            /\ lock # w /\ lock' = w =>
                   pc[w] = "acquire" /\ lock = 0 /\ status[Cur(w).id] \in Terminal
            /\ idx'[w] # idx[w] => pbar[w] = idx[w]]_vars

C15_Witness ==
    \E w, v \in Workers :
        /\ w # v /\ lock = w /\ pc[w] = "update" /\ pc[v] = "acquire"
        /\ pbar[w] = 1 /\ idx[w] = 2

(* The pool of two workers when the calls run() makes outside process_loop  *)
(* can raise.                                                               *)
AbortCfgs ==
    {Config("generic", real_time, FALSE, "add", None, None, 0, 0, "1d") :
        real_time \in BOOLEAN}
AbortWorlds ==
    {[ticks |-> {At(MaxDay, 0, 0)}, payloads |-> {}, discovered |-> {<<>>},
      strict |-> FALSE, faulty |-> TRUE,
      repeats |-> FALSE]}
InitAbort == InitWith(AbortCfgs, AbortWorlds, PoolEntities, {{}}, {Calendar}, {None})
SpecAbort == InitAbort /\ [][Next]_vars

\* C16: however run() ends, by passing its last entity or by an exception raised
\* outside the per-entity loop, both the data session and the entity session of
\* the worker are closed once it has ended.
C16_SessionsClosedOnEveryExit ==
    \A w \in Workers :
        pc[w] \in {"done", "aborted"} =>
            /\ sessions[w].session = "closed"
            /\ sessions[w].entity_session = "closed"

(* One listed entity with nothing persisted, synchronised by the generic    *)
(* policy up to a configured end_timestamp.                                 *)
EndToEndCfgs ==
    {Config("generic", real_time, FALSE, "add", None, At(1, 0, 0), 0, 0, "1d") :
        real_time \in BOOLEAN}
EndToEndWorlds ==
    {[ticks |-> {At(MaxDay, 0, 0)},
      payloads |-> {Raw(At(0, 12, 0)), Raw(At(1, 0, 0))},
      discovered |-> {<<>>}, strict |-> FALSE, faulty |-> FALSE,
      repeats |-> FALSE]}
\* listed before the end_timestamp, or on it
EndToEndEntities == {<<(<<Entity(1, t)>>)>> : t \in {At(0, 0, 0), At(1, 0, 0)}}
InitEndToEnd ==
    InitWith(EndToEndCfgs, EndToEndWorlds, EndToEndEntities, {{}}, {Calendar}, {None})
SpecEndToEnd == InitEndToEnd /\ [][Next]_vars

\* the first cycle of a listed entity with nothing persisted: start = listing
\* timestamp, size = default_size
FirstCycle(w) ==
    /\ frame[w].win.start = Cur(w).timestamp
    /\ frame[w].win.size = cfg.default_size
\* a cycle with records persisted: start = the maximum persisted timestamp; once
\* that is at or past end_timestamp the size is 0 and the entity is Finished in
\* this very cycle with no fetch, else the size is default_size
LaterCycle(w) ==
    /\ frame[w].win.start = LatestPersisted(w)
    /\ IF LatestPersisted(w) >= cfg.end_timestamp
       THEN /\ frame[w].win.size = 0
            /\ status[Cur(w).id] = "Finished"
            /\ pc[w] \notin LoopSteps
       ELSE /\ frame[w].win.size = cfg.default_size
            /\ status[Cur(w).id] # "Finished"
\* once Finished an entity is neither fetched for nor written to
FinishedIsFinal ==
    \A e \in DOMAIN status :
        status[e] = "Finished" =>
            /\ status'[e] = "Finished"
            /\ fetches'[e] = fetches[e]
            /\ RecordsOf(store', e) = RecordsOf(store, e)

\* C17 as stated: listing timestamp L < now, nothing persisted, no start
\* configured: the first cycle computes start = L and size = default_size; with
\* records persisted the next cycle computes start = the maximum persisted
\* timestamp, and once that is >= end_timestamp the size is 0 and the loop
\* reaches Finished in that cycle without another fetch.
C17_Original ==
    /\ [](\A w \in Workers :
            GenericListed(w) /\ Cur(w).timestamp # None /\ cfg.start_timestamp = None =>
                IF RecordsOf(store, Cur(w).id) = {} THEN FirstCycle(w) ELSE LaterCycle(w))
    /\ [][FinishedIsFinal]_vars

\* C17 as amended: the same, the first cycle computing size = default_size only
\* for a listing timestamp before end_timestamp; listed at or after end_timestamp
\* the entity gets size 0 in its first cycle and is Finished without any fetch.
C17_EndToEnd ==
    /\ [](\A w \in Workers :
            GenericListed(w) /\ Cur(w).timestamp # None /\ cfg.start_timestamp = None =>
                IF RecordsOf(store, Cur(w).id) # {} THEN LaterCycle(w)
                ELSE IF Cur(w).timestamp < cfg.end_timestamp THEN FirstCycle(w)
                ELSE /\ frame[w].win.start = Cur(w).timestamp
                     /\ frame[w].win.size = 0
                     /\ status[Cur(w).id] = "Finished"
                     /\ fetches[Cur(w).id] = 0)
    /\ [][FinishedIsFinal]_vars

C17_Witness ==
    \E w \in Workers :
        /\ GenericListed(w) /\ Cur(w).timestamp < cfg.end_timestamp
        /\ RecordsOf(store, Cur(w).id) # {} /\ LatestPersisted(w) >= cfg.end_timestamp
        /\ fetches[Cur(w).id] = 1 /\ hist[w].reads = 1
        /\ frame[w].win.size = 0 /\ status[Cur(w).id] = "Finished"

\* no record of the store has its id changed by the step
IdsKept == \A r \in store : \A q \in store' : q.oid = r.oid => q.id = r.id

\* C18: every record persisted from a raw payload has the id derived from its
\* entity and the day of its timestamp, with no other token in it, and the id of a
\* persisted record never changes.
C18_IdIsDerivedAndStable ==
    /\ [](\A w \in Workers :
            Running(w) /\ Len(hist[w].calls) >= 3 =>
                \A k \in 1..Len(hist[w].persisted) :
                    hist[w].persisted[k].id =
                        <<Cur(w).id, hist[w].persisted[k].timestamp \div MinutesPerDay, 0>>)
    /\ [][IdsKept]_vars

\* t lies in the configured [start_timestamp, end_timestamp]
InRange(t) ==
    /\ cfg.start_timestamp # None => cfg.start_timestamp <= t
    /\ cfg.end_timestamp # None => t <= cfg.end_timestamp
\* list holds exactly the timestamps of `discovered` that are in range
Memoizes(list, discovered) ==
    /\ Len(list) = Cardinality({i \in 1..Len(discovered) : InRange(discovered[i])})
    /\ SeqToSet(list) = {t \in SeqToSet(discovered) : InRange(t)}

\* C19: under the explicit-timestamp policy init_timestamps is called at most once
\* per entity, in the entity's first cycle; what is memoized is exactly the
\* discovered timestamps within [start_timestamp, end_timestamp], and a memoized
\* list is never replaced or shrunk afterwards, the empty list included.
C19_DiscoveryMemoized ==
    /\ [](cfg.policy = "timestamps" =>
            \A e \in EntityIds :
                /\ hooks[e].init <= 1
                /\ hooks[e].init = 1 <=> e \in DOMAIN security_timestamps_map
                /\ e \in DOMAIN security_timestamps_map =>
                       \E discovered \in world.discovered :
                           Memoizes(security_timestamps_map[e], discovered))
    /\ [][cfg.policy = "timestamps" =>
            /\ \A e \in DOMAIN security_timestamps_map :
                   /\ e \in DOMAIN security_timestamps_map'
                   /\ security_timestamps_map'[e] = security_timestamps_map[e]
            /\ \A w \in Workers :
                   idx[w] > 0 /\ hooks'[Cur(w).id].init # hooks[Cur(w).id].init =>
                       /\ pc[w] = "evaluate" /\ hist[w].calls = <<>>
                       /\ fetches[Cur(w).id] = 0]_vars

C19_Witness ==
    \E w \in Workers :
        /\ cfg.policy = "timestamps" /\ JustEvaluated(w)
        /\ fetches[Cur(w).id] >= 1 /\ hist[w].inits = 0 /\ hooks[Cur(w).id].init = 1
        /\ cfg.start_timestamp # None
        /\ security_timestamps_map[Cur(w).id] = <<At(1, 0, 0)>>
        /\ frame[w].win.timestamps = <<At(1, 0, 0)>>

\* the payloads of w's batch whose source timestamp is malformed
MalformedIn(w) ==
    {i \in 1..Len(frame[w].original_list) :
        frame[w].original_list[i].kind = "raw"
        /\ frame[w].original_list[i].timestamp = Malformed}

\* C20: reconciling a batch that holds a raw payload with a malformed timestamp
\* raises nothing (the entity does not become Failed), leaves no record without a
\* timestamp in the store, persists nothing for the malformed payload, and still
\* persists every other new payload of the batch.
C20_MalformedSkipped ==
    [][\A w \in Workers :
          Reconciles(w) /\ MalformedIn(w) # {}
          => LET batch == frame[w].original_list IN
             /\ pc'[w] # "raised"
             /\ \A r \in store' : r.timestamp # None
             /\ \A k \in 1..Len(hist'[w].persisted) : hist'[w].persisted[k].id[2] # Malformed
             /\ ~hist'[w].aborted =>
                    \A i \in (1..Len(batch)) \ MalformedIn(w) :
                        \E r \in store' : /\ r.entity_id = Cur(w).id
                                          /\ r.id[2] = batch[i].timestamp \div MinutesPerDay]_vars

(* One listed entity under the fixed-cycle policy, with or without an end date, *)
(* over a full calendar, a calendar with a gap and a calendar of one day.       *)
DelistingCfgs ==
    {Config("fixed", FALSE, FALSE, "add", None, None, ch, 0, "1d") : ch \in {0, 1}}
DelistingWorlds ==
    {[ticks |-> {At(MaxDay, 0, 30)}, payloads |-> {Raw(At(1, 0, 0))},
      discovered |-> {<<>>}, strict |-> FALSE, faulty |-> FALSE,
      repeats |-> FALSE]}
\* most recent day first: every day, the last and the first day only, the last day only
DelistingCalendars ==
    {Calendar, <<At(MaxDay, 0, 0), At(0, 0, 0)>>, <<At(MaxDay, 0, 0)>>}
DelistingEndDates == {None, At(0, 0, 0), At(1, 0, 0)}
InitDelisting ==
    InitWith(DelistingCfgs, DelistingWorlds, {<<(<<Entity(1, At(0, 0, 0))>>)>>},
             {{}, {Record(1, <<1, 0, 0>>, 1, At(0, 0, 0))}}, DelistingCalendars,
             DelistingEndDates)
SpecDelisting == InitDelisting /\ [][Next]_vars

\* the fixed-cycle policy got past its two early returns in w's iteration, over a
\* calendar that is not empty: it chose a calendar index and sized the window
Sized(w) ==
    /\ Running(w) /\ hist[w].calls = <<"evaluate">> /\ cfg.policy = "fixed"
    /\ hist[w].reads = 1
    /\ hist[w].latest # <<>> \/ Truthy(Cur(w).timestamp)
    /\ Len(trade_day) > 0
\* the entity's end date is known and lies at least a whole day before now
Delisted(w) ==
    /\ Truthy(stock_detail[Cur(w).id])
    /\ (frame[w].now - stock_detail[Cur(w).id]) \div MinutesPerDay > 0
\* positions in the descending calendar of the trading days at or before t
AtOrBefore(t) == {i \in 1..Len(trade_day) : trade_day[i] <= t}
\* position of the nearest of them
Nearest(t) == CHOOSE i \in AtOrBefore(t) : \A j \in AtOrBefore(t) : i <= j
\* trading days after the window's start and up to t
TradingDaysUpTo(w, t) ==
    {i \in 1..Len(trade_day) : /\ Day(trade_day[i]) > Day(frame[w].win.start)
                               /\ trade_day[i] <= t}

\* C21: under the fixed-cycle policy, for an entity whose end date is known and has
\* passed, the trading day the window is sized from is the nearest trading day at or
\* before the end date, whether the end date is a trading day or not, and the size
\* counts no trading day after the end date.
C21_DelistedIndexRebased ==
    \A w \in Workers :
        /\ Sized(w) /\ hist[w].computed /\ Delisted(w)
        /\ AtOrBefore(stock_detail[Cur(w).id]) # {}
        => /\ frame[w].win.end_date = trade_day[Nearest(stock_detail[Cur(w).id])]
           /\ frame[w].win.size <= Cardinality(TradingDaysUpTo(w, stock_detail[Cur(w).id]))

\* C26: under the fixed-cycle policy with close_hour and close_minute configured,
\* whenever the calendar is not empty the index chosen lies inside it: the window is
\* computed (no lookup fails) and its trading day is a day of the calendar, a
\* calendar of one day included.
C26_CalendarIndexInRange ==
    \A w \in Workers :
        Sized(w) /\ Truthy(cfg.close_hour) /\ Truthy(cfg.close_minute) =>
            /\ hist[w].computed
            /\ \E i \in 1..Len(trade_day) : frame[w].win.end_date = trade_day[i]

(* Two entities of one worker under the fixed-cycle policy; the first has two *)
(* records in one bucket, of the day before or of today.                      *)
DiscardCfgs == {Config("fixed", FALSE, FALSE, "add", None, None, 0, 0, "1d")}
DiscardWorlds ==
    {[ticks |-> {At(MaxDay, 0, 30)}, payloads |-> {Raw(At(MaxDay - 1, 0, 20))},
      discovered |-> {<<>>}, strict |-> FALSE, faulty |-> FALSE,
      repeats |-> FALSE]}
DiscardEntities == {<<(<<Entity(1, At(0, 0, 0)), Entity(2, At(0, 0, 0))>>)>>}
DiscardStores ==
    {{Record(1, <<1, d, 1>>, 1, At(d, 0, 10)), Record(2, <<1, d, 0>>, 1, At(d, 0, 20))} :
        d \in {MaxDay - 1, MaxDay}}
    \cup {{}}
InitDiscard ==
    InitWith(DiscardCfgs, DiscardWorlds, DiscardEntities, DiscardStores, {Calendar},
             {None})
SpecDiscard == InitDiscard /\ [][Next]_vars

\* what the database holds: a delete that was flushed and never committed is undone
\* when the session closes or the process ends
Durable == store \cup UNION {sessions[w].pending : w \in Workers}
\* a record written after r for r's entity and r's bucket
Replaced(r) ==
    \E q \in Durable : q.entity_id = r.entity_id /\ SameBucket(q, r) /\ q.oid > r.oid

\* C22: under the fixed-cycle policy, once run() has ended, every provisional record
\* whose delete was made durable by a commit of the session has a replacement in
\* the database: a record of its entity and its bucket written after it.
C22_DiscardedIsReplaced ==
    \A w \in Workers :
        pc[w] \in {"done", "aborted"} => \A r \in sessions[w].dropped : Replaced(r)

(* Two workers, real-time tracking off, every force_update and               *)
(* fix_duplicate_way; a source that ends up returning nothing or only what   *)
(* is persisted. Every worker process keeps running.                         *)
TerminationCfgs ==
    {Config("generic", FALSE, force_update, way, None, None, 0, 0, "1d") :
        force_update \in BOOLEAN, way \in {"add", "ignore"}}
TerminationWorlds ==
    {[ticks |-> {At(MaxDay, 0, 0)}, payloads |-> {Raw(At(1, 0, 0))},
      discovered |-> {<<>>}, strict |-> FALSE, faulty |-> FALSE, repeats |-> repeats] :
        repeats \in BOOLEAN}
TerminationEntities ==
    {<<(<<Entity(1, At(0, 0, 0)), Entity(2, At(MaxDay, 0, 0))>>), (<<Entity(3, At(MaxDay, 0, 0))>>)>>}
TerminationStores == {{}, {Record(1, <<1, 1, 0>>, 1, At(1, 0, 0))}}
InitTermination ==
    InitWith(TerminationCfgs, TerminationWorlds, TerminationEntities, TerminationStores,
             {Calendar}, {None})
\* the steps of worker w
Step(w) ==
    \/ RunStart(w) \/ NextEntity(w) \/ Evaluate(w) \/ Fetch(w) \/ Reconcile(w)
    \/ Realtime(w) \/ Sleep(w) \/ StepRaises(w) \/ ProcessLoopExcept(w)
    \/ Acquire(w) \/ Update(w) \/ Release(w) \/ OnFinish(w)
SpecTermination ==
    InitTermination /\ [][Next]_vars /\ \A w \in 1..2 : WF_vars(Step(w))

\* the entities of a worker are taken in list order, one loop at a time: those
\* before the running one have stopped, those after it have not started
InListOrder ==
    \A w \in Workers : \A i \in 1..Len(entities[w]) :
        /\ i < idx[w] => status[entities[w][i].id] \in Terminal
        /\ i > idx[w] => status[entities[w][i].id] = "Pending"
\* run() has returned in every worker and every entity has stopped
AllReturned ==
    /\ \A w \in Workers : pc[w] = "done"
    /\ \A e \in EntityIds : status[e] \in Terminal

\* worker w is about to reconcile a batch that is not empty and holds only raw
\* payloads whose record is persisted
KnownBatch(w) ==
    /\ pc[w] = "reconcile"
    /\ frame[w].original_list # <<>>
    /\ \A i \in 1..Len(frame[w].original_list) :
          frame[w].original_list[i] \in KnownPayloads(Cur(w).id)
\* the cycle of worker w is on its way out of the loop: the entity is Finished, or
\* an exception is on its way to the except clause, or the completion detector is
\* about to answer that the entity is finished
Stopping(w) ==
    \/ status[Cur(w).id] = "Finished"
    \/ pc[w] = "raised"
    \/ /\ pc[w] = "realtime"
       /\ process_realtime(frame[w].original_list, frame[w].all_duplicated, frame[w].now)

\* C23: with real_time off and a source that eventually returns an empty batch or a
\* batch of persisted raw payloads only, whatever force_update and
\* fix_duplicate_way are, every entity's loop eventually stops (Finished or Failed):
\* the cycle that reconciles such a batch is the last one of the loop.
C23_KnownBatchStopsLoop ==
    [][\A w \in Workers : KnownBatch(w) /\ Reconcile(w) => Stopping(w)']_vars

\* the part of C23 that holds: a loop that was answered an empty batch stops, so
\* with a source that ends up answering nothing every loop stops, run() takes the
\* entities of its list in order, one loop at a time, and returns
EveryLoopStops == []InListOrder /\ <>[]AllReturned

\* a batch of persisted payloads that force_update overlaid, and the loop stopped
KnownBatchStopped ==
    \E w \in Workers :
        /\ Running(w) /\ Len(hist[w].calls) = 4 /\ status[Cur(w).id] = "Finished"
        /\ cfg.force_update /\ world.repeats
        /\ frame[w].original_list # <<>> /\ frame[w].all_duplicated
        /\ \E r \in RecordsOf(store, Cur(w).id) : r.rev > 0
\* a batch of persisted payloads after which the loop went on to one more cycle
KnownBatchWentOn ==
    \E w \in Workers :
        /\ pc[w] = "sleep" /\ Len(frame[w].original_list) = MaxKnown
        /\ ~frame[w].all_duplicated

(* ------------------------------ finish hook ------------------------------ *)
\* C24: on_finish_entity is invoked exactly once for every entity whose loop ended
\* in Finished, whichever path finished it (window of size 0, completion detector,
\* collision abort inside a batch), and never for an entity that is still Active
\* or that ended in Failed.
C24_FinishHookOncePerFinished ==
    \A e \in EntityIds :
        hooks[e].finish = IF status[e] = "Finished" THEN 1 ELSE 0

\* the paths on which the hook is invoked: the loops that a window of size 0 or the
\* completion detector finished
FinishedByDetector ==
    \E w \in Workers :
        /\ Running(w) /\ status[Cur(w).id] = "Finished" /\ ~hist[w].aborted
        /\ hooks[Cur(w).id].finish = 1
\* the path on which it is not: the loop that a collision inside a batch finished
FinishedByAbort ==
    \E w \in Workers :
        /\ Running(w) /\ status[Cur(w).id] = "Finished" /\ hist[w].aborted
        /\ hooks[Cur(w).id].finish = 0
\* the hook is invoked in the very step that makes an entity Finished, once, on
\* every path but the collision abort of process_duplicate, and in no other step
FinishHookButOnAbort ==
    [][\A e \in EntityIds :
          IF status[e] # "Finished" /\ status'[e] = "Finished"
          THEN \/ hooks'[e].finish = hooks[e].finish + 1
               \/ /\ hooks'[e].finish = hooks[e].finish
                  /\ \E w \in Workers : Reconcile(w) /\ hist'[w].aborted
          ELSE hooks'[e].finish = hooks[e].finish]_vars

(* ------------------------------ progress lock --------------------------- *)
\* C25: every acquisition of the progress lock by a worker is followed by its
\* release by the same worker on every path, the one where pbar.update() raises
\* included: a worker whose run() has ended, returned or failed, does not hold the
\* lock, so no other worker waits for it forever.
C25_NoLostLock ==
    \A w \in Workers : pc[w] \in {"done", "aborted"} => lock # w

\* a worker left run() by an exception of pbar.update() and still holds the lock,
\* and the other worker waits at acquire() for good
LockLost ==
    \E w, v \in Workers :
        /\ pc[w] = "aborted" /\ lock = w
        /\ pc[v] = "acquire" /\ ~ENABLED Acquire(v)
\* the lock is taken by a worker at update or release only, and by none else
LockHeldBetweenAcquireAndRelease ==
    \A w \in Workers :
        /\ pc[w] \in {"update", "release"} => lock = w
        /\ pc[w] \notin {"update", "release", "aborted"} => lock # w

====
